---- MODULE Spec2Model ----
(***************************************************************************)
(* MoodFlix: mood text -> emotion -> genres -> catalogue search -> sample. *)
(* Model of src/emotion_model.py, src/recommender.py and src/main.py.      *)
(*                                                                         *)
(* Strings that the code transforms (strip, lower) are sequences of        *)
(* one-character strings; strings that are only compared or looked up are  *)
(* TLA+ strings.  Confidence scores are integer hundredths (0.4 is 40).    *)
(***************************************************************************)
EXTENDS Integers, Sequences, FiniteSets, TLC

\* ---- bounds ----
MaxTextLen == 2
MaxCount == 8
MaxHits == 2
MaxAnswers == 4
MaxLimit == 3

\* Python's None
None == [py |-> "None"]

\* ------------------------------------------------------------------------
\* str.strip() and str.lower()
\* ------------------------------------------------------------------------
Whitespace == {" ", "\t"}

TextChars == Whitespace \cup {"a"}

RECURSIVE LStrip(_)
LStrip(s) ==
    IF s = <<>> THEN s
    ELSE IF Head(s) \in Whitespace THEN LStrip(Tail(s)) ELSE s

RECURSIVE RStrip(_)
RStrip(s) ==
    IF s = <<>> THEN s
    ELSE IF s[Len(s)] \in Whitespace THEN RStrip(SubSeq(s, 1, Len(s) - 1)) ELSE s

Strip(s) == RStrip(LStrip(s))

UpperAlpha == <<"A","B","C","D","E","F","G","H","I","J","K","L","M","N","O","P","Q","R","S","T","U","V","W","X","Y","Z">>

LowerAlpha == <<"a","b","c","d","e","f","g","h","i","j","k","l","m","n","o","p","q","r","s","t","u","v","w","x","y","z">>

LowerChar(c) ==
    IF \E i \in 1..26 : UpperAlpha[i] = c
    THEN LowerAlpha[CHOOSE i \in 1..26 : UpperAlpha[i] = c]
    ELSE c

Lower(s) == [i \in 1..Len(s) |-> LowerChar(s[i])]

\* ------------------------------------------------------------------------
\* emotion_model.py
\* ------------------------------------------------------------------------
emotion_mapping ==
    <<"j","o","y">> :> "joy" @@
    <<"h","a","p","p","i","n","e","s","s">> :> "joy" @@
    <<"l","o","v","e">> :> "love" @@
    <<"p","o","s","i","t","i","v","e">> :> "joy" @@
    <<"s","a","d","n","e","s","s">> :> "sadness" @@
    <<"g","r","i","e","f">> :> "sadness" @@
    <<"n","e","g","a","t","i","v","e">> :> "sadness" @@
    <<"a","n","g","e","r">> :> "anger" @@
    <<"r","a","g","e">> :> "anger" @@
    <<"f","r","u","s","t","r","a","t","i","o","n">> :> "anger" @@
    <<"f","e","a","r">> :> "fear" @@
    <<"a","n","x","i","e","t","y">> :> "fear" @@
    <<"w","o","r","r","y">> :> "fear" @@
    <<"s","u","r","p","r","i","s","e">> :> "surprise" @@
    <<"a","m","a","z","e","m","e","n","t">> :> "surprise" @@
    <<"n","e","u","t","r","a","l">> :> "neutral" @@
    <<"d","i","s","g","u","s","t">> :> "neutral" @@
    <<"a","n","t","i","c","i","p","a","t","i","o","n">> :> "surprise" @@
    <<"t","r","u","s","t">> :> "joy"

\* emotion_mapping.get(emotion_label, 'neutral')
normalize_emotion(emotion_label) ==
    IF emotion_label \in DOMAIN emotion_mapping
    THEN emotion_mapping[emotion_label]
    ELSE "neutral"

\* strict comparisons instead of >=
get_emotion_confidence_level_strict(confidence) ==
    IF confidence > 80 THEN "high"
    ELSE IF confidence > 60 THEN "medium"
    ELSE IF confidence > 40 THEN "low"
    ELSE "very_low"

get_emotion_confidence_level(confidence) ==
    IF confidence >= 80 THEN "high"
    ELSE IF confidence >= 60 THEN "medium"
    ELSE IF confidence >= 40 THEN "low"
    ELSE "very_low"

\* the dict returned for empty input and from the except branch
EmptyResult ==
    [emotion |-> <<"n","e","u","t","r","a","l">>,
     confidence |-> 0,
     raw_prediction |-> None,
     normalized_emotion |-> "neutral"]

\* The classifier is a black box: for the text of one call it raises or
\* returns one prediction.  kind says which:
\*   raise          the call raises
\*   empty_list     returns [] (prediction[0] raises IndexError)
\*   no_label       top prediction has no 'label' key (KeyError)
\*   label_not_str  'label' is not a string (.lower() raises AttributeError)
\*   no_score       top prediction has no 'score' key (KeyError)
\*   list, dict     [{label, score}] or {label, score}
FailingKinds == {"raise", "empty_list", "no_label", "label_not_str", "no_score"}

OkKinds == {"list", "dict"}

\* the label is not lower-cased before the lookup
label_of_raw(top_prediction) == top_prediction.label

\* top_prediction['label'].lower()
label_of(top_prediction) == Lower(top_prediction.label)

\* body of the try block: [raised, value, calls]; calls lists the arguments
\* the classifier was invoked with
detect_try(text, clf) ==
    LET calls == <<Strip(text)>> IN
    IF clf.kind \in FailingKinds
    THEN [raised |-> TRUE, value |-> None, calls |-> calls]
    ELSE LET top_prediction == [label |-> clf.label, score |-> clf.score]
             emotion_label == label_of(top_prediction)
         IN [raised |-> FALSE,
             value |-> [emotion |-> emotion_label,
                        confidence |-> top_prediction.score,
                        raw_prediction |-> top_prediction,
                        normalized_emotion |-> normalize_emotion(emotion_label)],
             calls |-> calls]

\* no except clause: the failure propagates
detect_except_reraise(r) == r

\* except Exception: return the neutral dict
detect_except(r) ==
    IF r.raised
    THEN [raised |-> FALSE, value |-> EmptyResult, calls |-> r.calls]
    ELSE r

\* only the empty string is caught by the guard
is_blank_empty_only(text) == text = <<>>

\* not text or not text.strip()
is_blank(text) == text = <<>> \/ Strip(text) = <<>>

detect_emotion(text, clf) ==
    IF is_blank(text)
    THEN [raised |-> FALSE, value |-> EmptyResult, calls |-> <<>>]
    ELSE detect_except(detect_try(text, clf))

\* ------------------------------------------------------------------------
\* recommender.py
\* ------------------------------------------------------------------------
emotion_genre_mapping ==
    [joy |-> <<"Comedy", "Romance", "Family", "Animation", "Musical">>,
     love |-> <<"Romance", "Comedy", "Family", "Drama">>,
     sadness |-> <<"Drama", "Animation", "Biography", "Romance">>,
     anger |-> <<"Comedy", "Adventure", "Action", "Thriller">>,
     fear |-> <<"Family", "Fantasy", "Adventure", "Animation">>,
     surprise |-> <<"Mystery", "Adventure", "Thriller", "Sci-Fi">>,
     neutral |-> <<"Action", "Adventure", "Comedy", "Drama">>]

genre_keywords ==
    "Comedy" :> <<"funny", "laugh", "humor", "comedy">> @@
    "Romance" :> <<"love", "romantic", "romance">> @@
    "Drama" :> <<"drama", "emotional", "story">> @@
    "Action" :> <<"action", "adventure", "hero">> @@
    "Thriller" :> <<"thriller", "suspense", "mystery">> @@
    "Horror" :> <<"horror", "scary", "fear">> @@
    "Sci-Fi" :> <<"science", "fiction", "future", "space">> @@
    "Fantasy" :> <<"fantasy", "magic", "adventure">> @@
    "Animation" :> <<"animated", "cartoon", "family">> @@
    "Family" :> <<"family", "kids", "children">> @@
    "Musical" :> <<"musical", "music", "song">> @@
    "Biography" :> <<"biography", "true", "story">> @@
    "Mystery" :> <<"mystery", "detective", "crime">>

\* genre.lower() for the genre names that are not keys of genre_keywords
GenreLower == "Adventure" :> "adventure" @@ "Western" :> "western"

\* the default is the first table entry instead of 'neutral'
get_genres_for_emotion_default_joy(e) ==
    IF e \in DOMAIN emotion_genre_mapping
    THEN emotion_genre_mapping[e]
    ELSE emotion_genre_mapping["joy"]

get_genres_for_emotion(e) ==
    IF e \in DOMAIN emotion_genre_mapping
    THEN emotion_genre_mapping[e]
    ELSE emotion_genre_mapping["neutral"]

\* s[:n]
Prefix(s, n) == SubSeq(s, 1, IF Len(s) < n THEN Len(s) ELSE n)

\* genre_keywords.get(genre, [genre.lower()])[:3]
search_keywords(g) ==
    Prefix(IF g \in DOMAIN genre_keywords THEN genre_keywords[g] ELSE <<GenreLower[g]>>, 3)

Max(a, b) == IF a >= b THEN a ELSE b

\* the quota without the floor of 1
movies_per_genre_floor_only(num, g) == (num \div g) + 1

\* max(1, num_recommendations // len(genres)) + 1
movies_per_genre_of(num, g) == Max(1, num \div g) + 1

\* the catalogue
Ids == {"tt001", "tt002"}

Titles == {"A", "B"}

\* a search hit without an 'imdbID' key
NoId == "no_imdbID"

\* responses of the keyword search request: a failed request (network, HTTP
\* status, JSON), Response != 'True' or no 'Search' key, or a list of hits
SearchResponses(a) ==
    {[kind |-> "error", search |-> <<>>], [kind |-> "false", search |-> <<>>]}
    \cup (IF a > 0
          THEN {[kind |-> "hits", search |-> h] :
                   h \in UNION {[1..n -> Ids \cup {NoId}] : n \in 1..MaxHits}}
          ELSE {})

\* responses of the detail request
DetailResponses(a) ==
    {[kind |-> "error", title |-> ""], [kind |-> "false", title |-> ""]}
    \cup (IF a > 0 THEN {[kind |-> "ok", title |-> t] : t \in Titles} ELSE {})

\* no try/except around the request: the failure reaches the caller
get_movie_details_unguarded(imdb_id, resp) ==
    IF resp.kind = "error" THEN [raised |-> TRUE, value |-> None]
    ELSE IF resp.kind = "ok"
    THEN [raised |-> FALSE, value |-> [imdb_id |-> imdb_id, title |-> resp.title]]
    ELSE [raised |-> FALSE, value |-> None]

\* title stands for the fields copied from the response
get_movie_details(imdb_id, resp) ==
    IF resp.kind = "ok"
    THEN [raised |-> FALSE, value |-> [imdb_id |-> imdb_id, title |-> resp.title]]
    ELSE [raised |-> FALSE, value |-> None]

\* the last occurrence of an identifier replaces the earlier one
RECURSIVE unique_movies_last_wins(_)
unique_movies_last_wins(all) ==
    IF all = <<>> THEN <<>>
    ELSE LET rest == SubSeq(all, 1, Len(all) - 1)
             last == all[Len(all)]
             keep == unique_movies_last_wins(rest)
         IN IF \E i \in 1..Len(keep) : keep[i].imdb_id = last.imdb_id
            THEN [i \in 1..Len(keep) |->
                     IF keep[i].imdb_id = last.imdb_id THEN last ELSE keep[i]]
            ELSE Append(keep, last)

\* dict keyed by imdb_id filled in list order, first occurrence kept;
\* list(unique_movies.values()) is in insertion order
RECURSIVE unique_movies_of(_)
unique_movies_of(all) ==
    IF all = <<>> THEN <<>>
    ELSE LET rest == SubSeq(all, 1, Len(all) - 1)
             last == all[Len(all)]
             keep == unique_movies_of(rest)
         IN IF \E i \in 1..Len(keep) : keep[i].imdb_id = last.imdb_id
            THEN keep
            ELSE Append(keep, last)

\* the outcomes of random.shuffle on a list of length n
ShuffleOutcomes(n) == {p \in [1..n -> 1..n] : \A i, j \in 1..n : p[i] = p[j] => i = j}

Shuffled(list, p) == [i \in 1..Len(list) |-> list[p[i]]]

\* the slice is dropped: the whole list is returned
take_all(list, num) == list

\* unique_movies_list[:num_recommendations]
take(list, num) == Prefix(list, num)

\* ------------------------------------------------------------------------
\* main.py
\* ------------------------------------------------------------------------
\* the advisory threshold placed at the low/medium boundary
low_confidence_below_medium(confidence) == confidence < 60

\* if confidence < 0.4
low_confidence(confidence) == confidence < 40

\* ------------------------------------------------------------------------
\* State
\* ------------------------------------------------------------------------
VARIABLES
    pc,                  \* position of the running call
    entry,               \* the function that was called from outside
    text,                \* user_input / text
    classifier,          \* what self.classifier does for this text
    classifierCalls,     \* arguments self.classifier was invoked with
    emotion_result,      \* dict returned by detect_emotion
    confidence,
    confidence_level,
    advisory,            \* the low-confidence warning was printed
    emotion,             \* detected_emotion / recommend_movies' emotion
    num_recommendations,
    genres,
    movies_per_genre,
    gi,                  \* index of the genre being searched
    all_movies,
    requests,            \* the search_movies_by_genre calls issued so far
    recommendations,     \* value returned by recommend_movies
    genre,               \* search_movies_by_genre: its arguments and locals
    limit,
    keywords,
    ki,
    hits,                \* data['Search'] entries not yet iterated
    movies,
    lastResponse,        \* the last answer of the catalogue service
    answers,             \* answers with content the catalogue still gives
    result,              \* value returned by analyze_mood_and_recommend
    report,              \* which outcome analyze_mood_and_recommend printed
    mode,                \* main(): "batch" (arguments given) or "interactive"
    environment,         \* what the process finds: model files, credentials file
    detector,            \* the classifier EmotionDetector holds after __init__
    exit_code,           \* <<>> while the process runs, <<n>> once it exited with n
    reads,               \* input() calls that returned a line
    lastRead,            \* the last input() call: its prompt and what it gave
    stage,               \* interactive_mode: which analysis of the cycle runs
    ended                \* why the interactive loop was left

classifyVars == <<text, classifier, classifierCalls, emotion_result, confidence,
                  confidence_level, advisory>>

recommendVars == <<emotion, num_recommendations, genres, movies_per_genre, gi,
                   all_movies, requests, recommendations>>

searchVars == <<genre, limit, keywords, ki, hits, movies, lastResponse, answers>>

agentVars == <<result, report>>

mainVars == <<mode, environment, detector, exit_code, reads, lastRead, stage, ended>>

vars == <<pc, entry, classifyVars, recommendVars, searchVars, agentVars, mainVars>>

NoResponse == [call |-> "none", kind |-> "none", id |-> ""]

\* ------------------------------------------------------------------------
\* Inputs
\* ------------------------------------------------------------------------
Texts == UNION {[1..n -> TextChars] : n \in 0..MaxTextLen}

Upper(s) ==
    [i \in 1..Len(s) |->
        IF \E k \in 1..26 : LowerAlpha[k] = s[i]
        THEN UpperAlpha[CHOOSE k \in 1..26 : LowerAlpha[k] = s[i]]
        ELSE s[i]]

Capitalize(s) == [i \in 1..Len(s) |-> IF i = 1 THEN Upper(s)[1] ELSE s[i]]

CaseVariants(s) == {s, Upper(s), Capitalize(s)}

OffTableLabels ==
    {<<"b","o","r","e","d">>, <<"L","A","B","E","L","_","1">>,
     <<"j","o","y","f","u","l">>, <<>>}

RawLabels == UNION {CaseVariants(k) : k \in DOMAIN emotion_mapping} \cup OffTableLabels

Scores == {0, 39, 40, 59, 60, 79, 80, 100}

Classifiers ==
    {[kind |-> k, label |-> <<>>, score |-> 0] : k \in FailingKinds}
    \cup {[kind |-> k, label |-> l, score |-> s] : k \in OkKinds, l \in RawLabels, s \in Scores}

AgentTexts == {<<>>, <<"a">>}

AgentClassifiers ==
    {[kind |-> "list", label |-> <<"j","o","y">>, score |-> 92],
     [kind |-> "dict", label |-> <<"s","a","d","n","e","s","s">>, score |-> 59],
     [kind |-> "list", label |-> <<"P","O","S","I","T","I","V","E">>, score |-> 40],
     [kind |-> "list", label |-> <<"f","e","a","r">>, score |-> 39]}
    \cup {[kind |-> k, label |-> <<>>, score |-> 0] : k \in FailingKinds}

\* the counts main.py passes: the default 3 and 5 for "more"
AgentCounts == {3, 5}

EmotionInputs == DOMAIN emotion_genre_mapping \cup {"bored"}

GenreInputs == DOMAIN genre_keywords \cup DOMAIN GenreLower

\* ------------------------------------------------------------------------
\* Initial states: one per entry point
\* ------------------------------------------------------------------------
IdleClassify ==
    /\ classifierCalls = <<>>
    /\ emotion_result = None
    /\ confidence_level = ""
    /\ advisory = FALSE

IdleRecommend ==
    /\ genres = <<>>
    /\ movies_per_genre = 0
    /\ gi = 0
    /\ all_movies = <<>>
    /\ requests = <<>>
    /\ recommendations = <<>>

IdleSearch ==
    /\ keywords = <<>>
    /\ ki = 0
    /\ hits = <<>>
    /\ movies = <<>>
    /\ lastResponse = NoResponse

IdleAgent ==
    /\ result = None
    /\ report = "none"

NoRead == [prompt |-> "none", kind |-> "none", line |-> <<>>]

\* the process did not go through main()
IdleMain ==
    /\ mode = "none"
    /\ environment = [primary |-> "ok", fallback |-> "ok", credentials |-> "ok"]
    /\ detector = "primary"
    /\ exit_code = <<>>
    /\ reads = 0
    /\ lastRead = NoRead
    /\ stage = "none"
    /\ ended = "no"

\* MoodMovieRecommendationAgent.analyze_mood_and_recommend(user_input, n)
Init ==
    /\ pc = "analyze" /\ entry = "agent"
    /\ text \in AgentTexts
    /\ classifier \in AgentClassifiers
    /\ num_recommendations \in AgentCounts
    /\ answers = MaxAnswers
    /\ confidence = 0 /\ emotion = "" /\ genre = "" /\ limit = 0
    /\ IdleClassify /\ IdleRecommend /\ IdleSearch /\ IdleAgent /\ IdleMain

\* detect_emotion_detailed(text)
InitClassify ==
    /\ pc = "detect" /\ entry = "detect"
    /\ text \in Texts
    /\ classifier \in Classifiers
    /\ num_recommendations = 0 /\ answers = 0
    /\ confidence = 0 /\ emotion = "" /\ genre = "" /\ limit = 0
    /\ IdleClassify /\ IdleRecommend /\ IdleSearch /\ IdleAgent /\ IdleMain

\* detector.get_emotion_confidence_level(confidence)
InitTier ==
    /\ pc = "tier" /\ entry = "tier"
    /\ confidence \in 0..100
    /\ text = <<>> /\ classifier = [kind |-> "raise", label |-> <<>>, score |-> 0]
    /\ num_recommendations = 0 /\ answers = 0
    /\ emotion = "" /\ genre = "" /\ limit = 0
    /\ IdleClassify /\ IdleRecommend /\ IdleSearch /\ IdleAgent /\ IdleMain

\* recommend_movies(emotion, num_recommendations)
InitRecommend ==
    /\ pc = "recommend" /\ entry = "recommend"
    /\ emotion \in EmotionInputs
    /\ num_recommendations \in 1..MaxCount
    /\ answers = MaxAnswers
    /\ text = <<>> /\ classifier = [kind |-> "raise", label |-> <<>>, score |-> 0]
    /\ confidence = 0 /\ genre = "" /\ limit = 0
    /\ IdleClassify /\ IdleRecommend /\ IdleSearch /\ IdleAgent /\ IdleMain

\* recommender.search_movies_by_genre(genre, limit)
InitSearch ==
    /\ pc = "search" /\ entry = "search"
    /\ genre \in GenreInputs
    /\ limit \in 0..MaxLimit
    /\ answers = MaxAnswers
    /\ text = <<>> /\ classifier = [kind |-> "raise", label |-> <<>>, score |-> 0]
    /\ num_recommendations = 0 /\ confidence = 0 /\ emotion = ""
    /\ IdleClassify /\ IdleRecommend /\ IdleSearch /\ IdleAgent /\ IdleMain

\* ------------------------------------------------------------------------
\* emotion_model.py: calls from outside
\* ------------------------------------------------------------------------
DetectEmotionDetailed ==
    /\ pc = "detect"
    /\ LET r == detect_emotion(text, classifier) IN
        /\ classifierCalls' = r.calls
        /\ IF r.raised
           THEN pc' = "raised" /\ UNCHANGED emotion_result
           ELSE pc' = "done" /\ emotion_result' = r.value
    /\ UNCHANGED <<entry, mainVars, text, classifier, confidence, confidence_level, advisory,
                   recommendVars, searchVars, agentVars>>

ConfidenceLevel ==
    /\ pc = "tier"
    /\ confidence_level' = get_emotion_confidence_level(confidence)
    /\ pc' = "done"
    /\ UNCHANGED <<entry, mainVars, text, classifier, classifierCalls, emotion_result, confidence,
                   advisory, recommendVars, searchVars, agentVars>>

\* ------------------------------------------------------------------------
\* recommender.py: search_movies_by_genre
\* ------------------------------------------------------------------------
\* entering search_movies_by_genre(g, l): movies = [], keywords = ...,
\* then the first iteration of the keyword loop
BeginSearch(g, l) ==
    /\ genre' = g
    /\ limit' = l
    /\ movies' = <<>>
    /\ keywords' = search_keywords(g)
    /\ hits' = <<>>
    /\ lastResponse' = NoResponse
    /\ requests' = Append(requests, [genre |-> g, limit |-> l])
    /\ IF search_keywords(g) = <<>>
       THEN pc' = "ret" /\ ki' = 0
       ELSE pc' = "keyword" /\ ki' = 1
    /\ UNCHANGED answers

\* where the loops stand with hs left to iterate and ms gathered:
\* the inner loop's "if len(movies) >= limit: break", the end of the inner
\* loop, the outer loop's "if len(movies) >= limit: break", the next keyword
Continue(hs, ms) ==
    IF hs # <<>> /\ Len(ms) < limit
    THEN pc' = "detail" /\ hits' = hs /\ ki' = ki
    ELSE /\ hits' = <<>>
         /\ IF Len(ms) >= limit \/ ki >= Len(keywords)
            THEN pc' = "ret" /\ ki' = ki
            ELSE pc' = "keyword" /\ ki' = ki + 1

\* except Exception in search_movies_by_genre: print, then return movies
SearchExcept ==
    /\ pc' = "ret"
    /\ hits' = <<>>
    /\ ki' = ki

SearchCall ==
    /\ pc = "search"
    /\ BeginSearch(genre, limit)
    /\ UNCHANGED <<entry, mainVars, classifyVars, agentVars, emotion, num_recommendations, genres,
                   movies_per_genre, gi, all_movies, recommendations>>

\* requests.get(s=keyword), raise_for_status(), json()
KeywordRequest ==
    /\ pc = "keyword"
    /\ \E resp \in SearchResponses(answers) :
        /\ lastResponse' = [call |-> "search", kind |-> resp.kind, id |-> ""]
        /\ answers' = IF resp.kind = "hits" THEN answers - 1 ELSE answers
        /\ IF resp.kind = "error"
           THEN SearchExcept
           ELSE Continue(resp.search, movies)
    /\ UNCHANGED <<entry, mainVars, classifyVars, recommendVars, agentVars, genre, limit, keywords,
                   movies>>

\* one iteration of "for movie in data['Search']"
DetailRequest ==
    /\ pc = "detail"
    /\ IF Head(hits) = NoId
       THEN \* movie['imdbID'] raises KeyError
            /\ lastResponse' = [call |-> "hit", kind |-> "keyerror", id |-> ""]
            /\ SearchExcept
            /\ UNCHANGED <<movies, answers>>
       ELSE \E resp \in DetailResponses(answers) :
            LET d == get_movie_details(Head(hits), resp) IN
            /\ lastResponse' = [call |-> "detail", kind |-> resp.kind, id |-> Head(hits)]
            /\ answers' = IF resp.kind = "ok" THEN answers - 1 ELSE answers
            /\ IF d.raised
               THEN SearchExcept /\ UNCHANGED movies
               ELSE LET ms == IF d.value # None THEN Append(movies, d.value) ELSE movies
                    IN movies' = ms /\ Continue(Tail(hits), ms)
    /\ UNCHANGED <<entry, mainVars, classifyVars, recommendVars, agentVars, genre, limit, keywords>>

\* return movies, to an outside caller
SearchReturn ==
    /\ pc = "ret" /\ entry = "search"
    /\ pc' = "done"
    /\ UNCHANGED <<entry, mainVars, classifyVars, recommendVars, searchVars, agentVars>>

\* ------------------------------------------------------------------------
\* recommender.py: recommend_movies
\* ------------------------------------------------------------------------
RecommendBegin ==
    /\ pc = "recommend"
    /\ LET gs == get_genres_for_emotion(emotion)
           mpg == movies_per_genre_of(num_recommendations, Len(gs))
       IN /\ genres' = gs
          /\ movies_per_genre' = mpg
          /\ all_movies' = <<>>
          /\ gi' = 1
          /\ BeginSearch(gs[1], mpg)
    /\ UNCHANGED <<entry, mainVars, classifyVars, agentVars, emotion, num_recommendations,
                   recommendations>>

\* all_movies.extend(genre_movies), then the next genre
RecommendCollect ==
    /\ pc = "ret" /\ entry # "search"
    /\ all_movies' = all_movies \o movies
    /\ IF gi < Len(genres)
       THEN /\ gi' = gi + 1
            /\ BeginSearch(genres[gi + 1], movies_per_genre)
       ELSE /\ pc' = "select"
            /\ gi' = gi
            /\ genre' = "" /\ limit' = 0 /\ keywords' = <<>> /\ ki' = 0
            /\ hits' = <<>> /\ movies' = <<>> /\ lastResponse' = NoResponse
            /\ UNCHANGED <<answers, requests>>
    /\ UNCHANGED <<entry, mainVars, classifyVars, agentVars, emotion, num_recommendations, genres,
                   movies_per_genre, recommendations>>

\* remove duplicates, shuffle, slice, return
RecommendFinish ==
    /\ pc = "select"
    /\ LET unique_movies_list == unique_movies_of(all_movies) IN
       \E p \in ShuffleOutcomes(Len(unique_movies_list)) :
           recommendations' = take(Shuffled(unique_movies_list, p), num_recommendations)
    /\ pc' = IF entry = "recommend" THEN "done" ELSE "report"
    /\ UNCHANGED <<entry, mainVars, classifyVars, searchVars, agentVars, emotion, num_recommendations,
                   genres, movies_per_genre, gi, all_movies, requests>>

\* ------------------------------------------------------------------------
\* main.py: analyze_mood_and_recommend
\* ------------------------------------------------------------------------
\* steps 1 and 2, up to the call of recommend_movies
AnalyzeMood ==
    /\ pc = "analyze"
    /\ LET r == detect_emotion(text, classifier) IN
        /\ classifierCalls' = r.calls
        /\ IF r.raised
           THEN /\ pc' = "raised"
                /\ UNCHANGED <<emotion_result, confidence, confidence_level, advisory, emotion>>
           ELSE /\ emotion_result' = r.value
                /\ emotion' = r.value.normalized_emotion
                /\ confidence' = r.value.confidence
                /\ confidence_level' = get_emotion_confidence_level(r.value.confidence)
                /\ advisory' = low_confidence(r.value.confidence)
                /\ pc' = "recommend"
    /\ UNCHANGED <<entry, mainVars, text, classifier, num_recommendations, genres, movies_per_genre,
                   gi, all_movies, requests, recommendations, searchVars, agentVars>>

\* what the except branch returns
ExceptReturn == None

\* after recommend_movies returned: "if not recommendations" or the display
\* and the result dict
AnalyzeReport ==
    /\ pc = "report"
    /\ IF recommendations = <<>>
       THEN result' = None /\ report' = "no_movies"
       ELSE /\ report' = "shown"
            /\ result' = [emotion_analysis |-> emotion_result,
                          detected_emotion |-> emotion,
                          confidence |-> confidence,
                          confidence_level |-> confidence_level,
                          recommendations |-> recommendations,
                          genres |-> get_genres_for_emotion(emotion)]
    /\ pc' = "done"
    /\ UNCHANGED <<entry, mainVars, classifyVars, recommendVars, searchVars>>

\* an exception inside the try block (the display writes to stdout, which
\* can fail): except Exception prints the error and returns None
AnalyzeExcept ==
    /\ pc = "report"
    /\ result' = ExceptReturn
    /\ report' = "error"
    /\ pc' = "done"
    /\ UNCHANGED <<entry, mainVars, classifyVars, recommendVars, searchVars>>

\* ------------------------------------------------------------------------
\* Specifications
\* ------------------------------------------------------------------------
Next ==
    \/ AnalyzeMood
    \/ RecommendBegin
    \/ KeywordRequest
    \/ DetailRequest
    \/ RecommendCollect
    \/ RecommendFinish
    \/ AnalyzeReport
    \/ AnalyzeExcept

Spec == Init /\ [][Next]_vars

NextClassify == DetectEmotionDetailed

SpecClassify == InitClassify /\ [][NextClassify]_vars

NextTier == ConfidenceLevel

SpecTier == InitTier /\ [][NextTier]_vars

NextRecommend ==
    \/ RecommendBegin
    \/ KeywordRequest
    \/ DetailRequest
    \/ RecommendCollect
    \/ RecommendFinish

SpecRecommend == InitRecommend /\ [][NextRecommend]_vars

NextSearch ==
    \/ SearchCall
    \/ KeywordRequest
    \/ DetailRequest
    \/ SearchReturn

SpecSearch == InitSearch /\ [][NextSearch]_vars

TypeOK ==
    /\ pc \in {"analyze", "detect", "tier", "recommend", "search", "keyword", "detail",
               "ret", "select", "report", "done", "raised",
               "main", "ready", "prompt", "more", "ended", "exited"}
    /\ answers \in 0..MaxAnswers
    /\ Len(movies) <= Max(limit, 0)

\* ------------------------------------------------------------------------
\* main.py: the process, from main() to its exit
\* ------------------------------------------------------------------------
MaxReads == 3

SessionAnswers == 2

\* pipeline(...) for a model either returns or raises
ModelFiles == {"ok", "fail"}

\* the credentials file: readable with a key, absent, not JSON, without
\* the 'omdb_api_key' entry, or with an empty one
CredentialFiles == {"ok", "missing_file", "bad_json", "no_key", "empty_key"}

Environments == [primary : ModelFiles, fallback : ModelFiles, credentials : CredentialFiles]

\* EmotionDetector.__init__: the fallback is loaded in the except branch,
\* outside any try
emotion_detector_init(env) ==
    IF env.primary = "ok" THEN [raised |-> FALSE, classifier |-> "primary"]
    ELSE IF env.fallback = "ok" THEN [raised |-> FALSE, classifier |-> "fallback"]
    ELSE [raised |-> TRUE, classifier |-> "none"]

\* the check "if not self.api_key" is missing
load_credentials_key_unchecked(credentials) ==
    [raised |-> credentials \in {"missing_file", "bad_json"}]

\* MovieRecommender._load_credentials: every failure is printed and re-raised
load_credentials(credentials) == [raised |-> credentials # "ok"]

exit_commands ==
    {<<"q","u","i","t">>, <<"e","x","i","t">>, <<"b","y","e">>, <<"q">>}

\* the comparison without .lower()
is_exit_command_case_sensitive(user_input) == user_input \in exit_commands

\* user_input.lower() in ['quit', 'exit', 'bye', 'q']
is_exit_command(user_input) == Lower(user_input) \in exit_commands

\* more_input in ['y', 'yes'], more_input = input().strip().lower()
is_yes(line) == Lower(Strip(line)) \in {<<"y">>, <<"y","e","s">>}

\* lines the user may type
ExitLines ==
    {<<"q">>, <<"Q","u","i","t">>, <<" ","e","x","i","t"," ">>, <<"B","Y","E">>}

OtherLines == {<<>>, <<" ">>, <<"y">>, <<" ","Y","E","S">>}

Lines == ExitLines \cup OtherLines

MainClassifiers ==
    {[kind |-> "list", label |-> <<"j","o","y">>, score |-> 92],
     [kind |-> "raise", label |-> <<>>, score |-> 0]}

\* python main.py [mood ...]
InitMain ==
    /\ pc = "main" /\ entry = "main"
    /\ \/ mode = "batch" /\ text \in AgentTexts
       \/ mode = "interactive" /\ text = <<>>
    /\ classifier \in MainClassifiers
    /\ environment \in Environments
    /\ answers = SessionAnswers
    /\ detector = "none"
    /\ exit_code = <<>>
    /\ reads = 0
    /\ lastRead = NoRead
    /\ stage = "none"
    /\ ended = "no"
    /\ num_recommendations = 0
    /\ confidence = 0 /\ emotion = "" /\ genre = "" /\ limit = 0
    /\ IdleClassify /\ IdleRecommend /\ IdleSearch /\ IdleAgent

\* MoodMovieRecommendationAgent.__init__, called by main(): a failure of
\* either constructor is caught, printed and turned into sys.exit(1);
\* SystemExit passes main()'s "except Exception"
AgentInit ==
    /\ pc = "main"
    /\ LET d == emotion_detector_init(environment)
           c == load_credentials(environment.credentials)
       IN /\ detector' = d.classifier
          /\ IF d.raised \/ c.raised
             THEN exit_code' = <<1>> /\ pc' = "exited"
             ELSE exit_code' = exit_code /\ pc' = "ready"
    /\ UNCHANGED <<entry, classifyVars, recommendVars, searchVars, agentVars,
                   mode, environment, reads, lastRead, stage, ended>>

\* if len(sys.argv) > 1: one analysis of the joined arguments, else the loop
MainDispatch ==
    /\ pc = "ready"
    /\ IF mode = "batch"
       THEN pc' = "analyze" /\ num_recommendations' = 3
       ELSE pc' = "prompt" /\ UNCHANGED num_recommendations
    /\ UNCHANGED <<entry, classifyVars, searchVars, agentVars, mainVars, emotion, genres,
                   movies_per_genre, gi, all_movies, requests, recommendations>>

\* a call self.analyze_mood_and_recommend(t, n) from the loop
StartAnalysis(t, n, st) ==
    /\ text' = t
    /\ num_recommendations' = n
    /\ stage' = st
    /\ requests' = <<>>
    /\ result' = None
    /\ report' = "none"
    /\ pc' = "analyze"

\* the loop goes back to the top: the next input("How are you feeling")
NextPrompt ==
    /\ pc' = "prompt"
    /\ stage' = "none"
    /\ UNCHANGED <<text, num_recommendations, requests, result, report>>

\* input() either returns a line or raises EOFError; after the end of the
\* input every further call raises EOFError
CanReadLine == reads < MaxReads /\ lastRead.kind # "eof"

\* the top of the loop: read, exit command, empty input, analysis
ReadMood ==
    /\ pc = "prompt"
    /\ \/ \E l \in Lines :
            /\ CanReadLine
            /\ reads' = reads + 1
            /\ lastRead' = [prompt |-> "mood", kind |-> "line", line |-> l]
            /\ LET user_input == Strip(l) IN
               IF is_exit_command(user_input)
               THEN /\ pc' = "ended" /\ ended' = "exit"
                    /\ UNCHANGED <<text, num_recommendations, requests, result, report, stage>>
               ELSE /\ ended' = ended
                    /\ IF user_input = <<>>
                       THEN NextPrompt
                       ELSE StartAnalysis(user_input, 3, "first")
       \/ \* EOFError: except Exception prints it, the loop goes on
          /\ lastRead' = [prompt |-> "mood", kind |-> "eof", line |-> <<>>]
          /\ NextPrompt
          /\ UNCHANGED <<reads, ended>>
    /\ UNCHANGED <<entry, classifier, classifierCalls, emotion_result, confidence,
                   confidence_level, advisory, emotion, genres, movies_per_genre, gi,
                   all_movies, recommendations, searchVars, mode, environment, detector,
                   exit_code>>

\* after the first analysis: "if result:" asks for more; after the second
\* one, and when nothing was found, the loop goes on
AfterAnalysis ==
    /\ pc = "done" /\ mode = "interactive"
    /\ IF stage = "first" /\ result # None
       THEN pc' = "more" /\ UNCHANGED stage
       ELSE pc' = "prompt" /\ stage' = "none"
    /\ UNCHANGED <<entry, classifyVars, recommendVars, searchVars, agentVars, mode,
                   environment, detector, exit_code, reads, lastRead, ended>>

\* "Want more ... (y/n)": the line is only compared with y and yes
ReadMore ==
    /\ pc = "more"
    /\ \/ \E l \in Lines :
            /\ CanReadLine
            /\ reads' = reads + 1
            /\ lastRead' = [prompt |-> "more", kind |-> "line", line |-> l]
            /\ IF is_yes(l)
               THEN StartAnalysis(text, 5, "second")
               ELSE NextPrompt
       \/ /\ lastRead' = [prompt |-> "more", kind |-> "eof", line |-> <<>>]
          /\ NextPrompt
          /\ UNCHANGED reads
    /\ UNCHANGED <<entry, classifier, classifierCalls, emotion_result, confidence,
                   confidence_level, advisory, emotion, genres, movies_per_genre, gi,
                   all_movies, recommendations, searchVars, mode, environment, detector,
                   exit_code, ended>>

InLoop ==
    /\ mode = "interactive"
    /\ pc \in {"prompt", "more", "analyze", "recommend", "keyword", "detail", "ret",
               "select", "report", "done"}

\* except KeyboardInterrupt: goodbye, break
Interrupt ==
    /\ InLoop
    /\ pc' = "ended"
    /\ ended' = "interrupt"
    /\ UNCHANGED <<entry, classifyVars, recommendVars, searchVars, agentVars, mode,
                   environment, detector, exit_code, reads, lastRead, stage>>

\* the exit statuses of an interpreter ended by an unhandled KeyboardInterrupt:
\* 1, or 130 where it ends itself with SIGINT
InterruptStatuses == {<<1>>, <<130>>}

\* a KeyboardInterrupt outside the loop's try: neither `except Exception` of
\* main.py catches it
UncaughtInterrupt ==
    /\ entry = "main"
    /\ ~InLoop
    /\ pc \in {"main", "ready", "analyze", "recommend", "keyword", "detail", "ret",
               "select", "report", "done"}
    /\ exit_code' \in InterruptStatuses
    /\ pc' = "exited"
    /\ ended' = "uncaught"
    /\ UNCHANGED <<entry, classifyVars, recommendVars, searchVars, agentVars, mode,
                   environment, detector, reads, lastRead, stage>>

\* main() returns and the interpreter exits with 0
MainReturn ==
    /\ \/ pc = "done" /\ mode = "batch"
       \/ pc = "ended"
    /\ exit_code' = <<0>>
    /\ pc' = "exited"
    /\ UNCHANGED <<entry, classifyVars, recommendVars, searchVars, agentVars, mode,
                   environment, detector, reads, lastRead, stage, ended>>

NextMain ==
    \/ AgentInit
    \/ MainDispatch
    \/ ReadMood
    \/ ReadMore
    \/ AfterAnalysis
    \/ Interrupt
    \/ UncaughtInterrupt
    \/ MainReturn
    \/ AnalyzeMood
    \/ RecommendBegin
    \/ KeywordRequest
    \/ DetailRequest
    \/ RecommendCollect
    \/ RecommendFinish
    \/ AnalyzeReport
    \/ AnalyzeExcept

SpecMain == InitMain /\ [][NextMain]_vars

\* ------------------------------------------------------------------------
\* Properties
\* ------------------------------------------------------------------------
Min(a, b) == IF a <= b THEN a ELSE b

\* G: the number of genres mapped to the emotion of the call
G == Len(get_genres_for_emotion(emotion))

RecommendReturned == entry = "recommend" /\ pc = "done"

\* C1 as stated: every per-genre search is asked for floor(count / G) + 1
\* candidates.
C1_QuotaFloorPlusOne ==
    \A i \in 1..Len(requests) :
        requests[i].limit = (num_recommendations \div G) + 1

\* C1, amended: every per-genre search of a call recommend(emotion, count),
\* count >= 1, is asked for max(1, floor(count / G)) + 1 candidates, which is
\* 2 whenever count < 2G (so 2, not 1, for count = 3 and joy) and
\* floor(count / G) + 1 otherwise; a search is issued for each of the G genres.
C1_Quota ==
    /\ \A i \in 1..Len(requests) :
          requests[i].limit =
              (IF num_recommendations < 2 * G THEN 2 ELSE (num_recommendations \div G) + 1)
    /\ RecommendReturned => Len(requests) = G

C1_Witness ==
    /\ RecommendReturned
    /\ emotion = "joy" /\ num_recommendations = 3
    /\ Len(requests) = 5
    /\ \A i \in 1..5 : requests[i].limit = 2

\* P: the distinct catalogue identifiers among the records the per-genre
\* searches returned
PoolIds == {all_movies[i].imdb_id : i \in 1..Len(all_movies)}

\* C2: recommend returns exactly min(count, P) records, without raising,
\* whatever the per-genre searches returned.
C2_SizeLaw ==
    /\ pc # "raised"
    /\ RecommendReturned =>
          Len(recommendations) = Min(num_recommendations, Cardinality(PoolIds))

\* fewer unique records than requested, gathered with duplicates
C2_Witness ==
    /\ RecommendReturned
    /\ Cardinality(PoolIds) = 1
    /\ Len(all_movies) = 2
    /\ num_recommendations = 3
    /\ Len(recommendations) = 1

\* the first record with identifier id in accumulation order
FirstWithId(id) ==
    all_movies[CHOOSE k \in 1..Len(all_movies) :
                   /\ all_movies[k].imdb_id = id
                   /\ \A j \in 1..(k - 1) : all_movies[j].imdb_id # id]

\* C3: the output of recommend has no two records with the same identifier,
\* and each record of it is the first one gathered with its identifier, for
\* every shuffle outcome.
C3_FirstWins ==
    RecommendReturned =>
        /\ \A i, j \in 1..Len(recommendations) :
              recommendations[i].imdb_id = recommendations[j].imdb_id => i = j
        /\ \A i \in 1..Len(recommendations) :
              /\ recommendations[i].imdb_id \in PoolIds
              /\ recommendations[i] = FirstWithId(recommendations[i].imdb_id)

\* the same identifier gathered twice with different titles, and returned
C3_Witness ==
    /\ RecommendReturned
    /\ \E i, j \in 1..Len(all_movies) :
          /\ i < j
          /\ all_movies[i].imdb_id = all_movies[j].imdb_id
          /\ all_movies[i].title # all_movies[j].title
          /\ \E k \in 1..Len(recommendations) : recommendations[k] = all_movies[i]

AgentReturned == entry = "agent" /\ pc = "done"

\* C4 as stated: when every per-genre search returned nothing, the run ends
\* with a result that has an empty movie list and a "no recommendations"
\* outcome, and that result differs from what the error path returns.
C4_EmptyIsNotError ==
    (AgentReturned /\ report # "error" /\ all_movies = <<>>) =>
        /\ report = "no_movies"
        /\ result # ExceptReturn
        /\ result.recommendations = <<>>

Classified == entry = "agent" /\ pc \notin {"analyze", "raised"}

\* recommend_movies was entered with the normalized emotion
RecommendInvoked ==
    /\ pc # "raised"
    /\ Classified =>
          /\ emotion = emotion_result.normalized_emotion
          /\ pc # "recommend" =>
                /\ requests # <<>>
                /\ requests[1].genre = get_genres_for_emotion(emotion_result.normalized_emotion)[1]

\* C5 as stated: the advisory is flagged exactly when the tier is very_low or
\* low, and recommend is invoked in every run.
C5_AdvisoryLowTiers ==
    /\ Classified => (advisory <=> confidence_level \in {"very_low", "low"})
    /\ RecommendInvoked

\* C5, amended: the advisory is flagged exactly when the score is below 0.4,
\* that is exactly when the tier is very_low (a low tier, 0.4 <= score < 0.6,
\* is not flagged); flagging never prevents the call to the aggregator:
\* recommend is invoked with the normalized emotion in every run.
C5_Advisory ==
    /\ Classified =>
          /\ advisory <=> emotion_result.confidence < 40
          /\ advisory <=> confidence_level = "very_low"
    /\ RecommendInvoked

\* a flagged run whose recommendation step ran to the end
C5_Witness ==
    /\ AgentReturned
    /\ advisory
    /\ classifierCalls # <<>>
    /\ confidence_level = "very_low"
    /\ Len(requests) = 4

TierRank == [very_low |-> 0, low |-> 1, medium |-> 2, high |-> 3]

TierReturned == entry = "tier" /\ pc = "done"

TierMonotonic ==
    TierReturned =>
        \A c \in 0..confidence :
            TierRank[get_emotion_confidence_level(c)] <= TierRank[confidence_level]

\* C6 as stated: monotonic, with 0.79 -> low, 0.8 -> high, 0.59 -> low,
\* 0.6 -> medium, 0.39 -> very_low, 0.4 -> low.
C6_BreakpointsAsStated ==
    /\ TierMonotonic
    /\ TierReturned =>
          /\ confidence = 79 => confidence_level = "low"
          /\ confidence = 80 => confidence_level = "high"
          /\ confidence = 59 => confidence_level = "low"
          /\ confidence = 60 => confidence_level = "medium"
          /\ confidence = 39 => confidence_level = "very_low"
          /\ confidence = 40 => confidence_level = "low"

\* C6, amended: confidenceTier is a non-decreasing step function of the score
\* with 0.79 -> medium, 0.8 -> high, 0.59 -> low, 0.6 -> medium,
\* 0.39 -> very_low, 0.4 -> low.
C6_Breakpoints ==
    /\ TierMonotonic
    /\ TierReturned =>
          /\ confidence = 79 => confidence_level = "medium"
          /\ confidence = 80 => confidence_level = "high"
          /\ confidence = 59 => confidence_level = "low"
          /\ confidence = 60 => confidence_level = "medium"
          /\ confidence = 39 => confidence_level = "very_low"
          /\ confidence = 40 => confidence_level = "low"

C6_Witness == TierReturned /\ confidence = 79 /\ confidence_level = "medium"

AllWhitespace(t) == \A i \in 1..Len(t) : t[i] \in {" ", "\t"}

\* C7: for an empty or whitespace-only text classify returns confidence 0.0,
\* raw prediction null and emotion neutral, and never invokes the classifier.
C7_BlankText ==
    (entry = "detect" /\ pc # "detect" /\ AllWhitespace(text)) =>
        /\ pc = "done"
        /\ emotion_result.confidence = 0
        /\ emotion_result.raw_prediction = None
        /\ emotion_result.normalized_emotion = "neutral"
        /\ classifierCalls = <<>>

\* a whitespace-only text, with a classifier that would have answered
C7_Witness ==
    /\ entry = "detect" /\ pc = "done"
    /\ text = <<" ", "\t">>
    /\ classifier.kind = "list"
    /\ classifier.score = 80
    /\ emotion_result.normalized_emotion = "neutral"

\* C8: for a non-empty text, when the classifier raises or its prediction
\* has no usable label and score, classify returns the neutral result
\* (neutral, 0.0, null) instead of raising, and the run goes on to the
\* recommendation step.
C8_ClassifierFailure ==
    (entry = "agent" /\ pc # "analyze" /\ text # <<>>
        /\ classifier.kind \in {"raise", "empty_list", "no_label", "label_not_str", "no_score"}) =>
        /\ pc # "raised"
        /\ emotion_result.normalized_emotion = "neutral"
        /\ emotion_result.confidence = 0
        /\ emotion_result.raw_prediction = None
        /\ emotion = "neutral"
        /\ pc # "recommend" => requests # <<>>
        /\ pc = "done" =>
              [i \in 1..Len(requests) |-> requests[i].genre]
                  = <<"Action", "Adventure", "Comedy", "Drama">>

\* the classifier was called, raised, and the run finished
C8_Witness ==
    /\ AgentReturned
    /\ classifier.kind = "raise"
    /\ classifierCalls = << <<"a">> >>
    /\ emotion = "neutral"
    /\ Len(requests) = 4

\* the documented table: raw label (lower case) -> canonical emotion
Documented ==
    <<"j","o","y">> :> "joy" @@
    <<"l","o","v","e">> :> "love" @@
    <<"s","a","d","n","e","s","s">> :> "sadness" @@
    <<"a","n","g","e","r">> :> "anger" @@
    <<"f","e","a","r">> :> "fear" @@
    <<"s","u","r","p","r","i","s","e">> :> "surprise" @@
    <<"n","e","u","t","r","a","l">> :> "neutral" @@
    <<"h","a","p","p","i","n","e","s","s">> :> "joy" @@
    <<"p","o","s","i","t","i","v","e">> :> "joy" @@
    <<"t","r","u","s","t">> :> "joy" @@
    <<"g","r","i","e","f">> :> "sadness" @@
    <<"n","e","g","a","t","i","v","e">> :> "sadness" @@
    <<"r","a","g","e">> :> "anger" @@
    <<"f","r","u","s","t","r","a","t","i","o","n">> :> "anger" @@
    <<"a","n","x","i","e","t","y">> :> "fear" @@
    <<"w","o","r","r","y">> :> "fear" @@
    <<"a","m","a","z","e","m","e","n","t">> :> "surprise" @@
    <<"a","n","t","i","c","i","p","a","t","i","o","n">> :> "surprise" @@
    <<"d","i","s","g","u","s","t">> :> "neutral"

Canonical == {"joy", "love", "sadness", "anger", "fear", "surprise", "neutral"}

\* C9: the raw label of a prediction resolves to a canonical emotion: the
\* documented one when the label, in any letter case, is in the table, and
\* neutral when it is not.
C9_Normalize ==
    (entry = "detect" /\ pc = "done" /\ ~AllWhitespace(text)
        /\ classifier.kind \in {"list", "dict"}) =>
        /\ emotion_result.normalized_emotion \in Canonical
        /\ \A k \in DOMAIN Documented :
              classifier.label \in {k, Upper(k), Capitalize(k)} =>
                  emotion_result.normalized_emotion = Documented[k]
        /\ (\A k \in DOMAIN Documented : classifier.label \notin {k, Upper(k), Capitalize(k)}) =>
              emotion_result.normalized_emotion = "neutral"

C9_Witness ==
    /\ entry = "detect" /\ pc = "done"
    /\ classifier.label = <<"N","E","G","A","T","I","V","E">>
    /\ emotion_result.raw_prediction # None
    /\ emotion_result.normalized_emotion = "sadness"

\* what searchGenre holds at every moment: it has not raised, and it has
\* gathered at most limit records, each with a catalogue identifier
SearchGathered ==
    /\ pc # "raised"
    /\ Len(movies) <= limit
    /\ \A i \in 1..Len(movies) : movies[i].imdb_id \in Ids

\* one step of searchGenre: a failed request or a hit without identifier
\* ends the search with the records gathered so far; a failed detail
\* retrieval adds nothing and the next identifier is processed; only a
\* successful detail retrieval adds a record, that of the identifier asked
SearchStep ==
    /\ (pc \in {"keyword", "detail"} /\ lastResponse'.kind \in {"keyerror"} \cup
            (IF lastResponse'.call = "search" THEN {"error"} ELSE {})) =>
          pc' = "ret" /\ movies' = movies
    /\ (pc = "detail" /\ lastResponse'.call = "detail" /\ lastResponse'.kind \in {"error", "false"}) =>
          /\ movies' = movies
          /\ Tail(hits) # <<>> => (pc' = "detail" /\ hits' = Tail(hits))
    /\ (pc = "detail" /\ lastResponse'.call = "detail" /\ lastResponse'.kind = "ok") =>
          /\ Len(movies') = Len(movies) + 1
          /\ SubSeq(movies', 1, Len(movies)) = movies
          /\ movies'[Len(movies')].imdb_id = Head(hits)
    /\ pc = "ret" => movies' = movies

ProcessStarted == entry = "main" /\ pc # "main" /\ ended # "uncaught"

\* C11 as stated: whenever the primary model cannot be loaded, the detector
\* is still constructed, with the coarser sentiment model, and start-up
\* proceeds (it is not that failure which stops the process).
C11_FallbackDetector ==
    (ProcessStarted /\ environment.primary = "fail") =>
        /\ detector = "fallback"
        /\ environment.credentials = "ok" => exit_code # <<1>>

\* initialization fails: no model can be loaded, or the credentials file is
\* missing, unreadable or without a key
InitFails ==
    \/ environment.primary = "fail" /\ environment.fallback = "fail"
    \/ environment.credentials # "ok"

\* C12 as stated: the process exits with code 1 when initialization fails
\* and with code 0 in every other run, also when a recommendation cycle
\* failed or found nothing.
C12_ExitCodeAsStated ==
    (entry = "main" /\ pc = "exited") =>
        exit_code = (IF InitFails THEN <<1>> ELSE <<0>>)

\* C12, amended: in a run that is not interrupted outside the interactive
\* loop, the process exits with code 1 when initialization fails, before any
\* request is served, and with code 0 otherwise, also when a recommendation
\* cycle failed or found nothing; an interrupt during start-up or during the
\* batch cycle is caught nowhere and ends the process with a nonzero status.
C12_ExitCode ==
    /\ exit_code # <<>> => pc = "exited"
    /\ (entry = "main" /\ pc = "exited") =>
          IF ended = "uncaught"
          THEN exit_code # <<0>> /\ reads = 0
          ELSE exit_code = (IF InitFails THEN <<1>> ELSE <<0>>)
    /\ (ProcessStarted /\ InitFails) =>
          /\ pc = "exited"
          /\ classifierCalls = <<>> /\ requests = <<>> /\ reads = 0

\* a batch run whose only cycle ended in the error branch, exit code 0
C12_Witness ==
    /\ entry = "main" /\ pc = "exited"
    /\ mode = "batch"
    /\ report = "error"
    /\ result = None
    /\ ended = "no"
    /\ exit_code = <<0>>

\* the genre lists as documented
ExpectedGenres ==
    [joy |-> <<"Comedy", "Romance", "Family", "Animation", "Musical">>,
     love |-> <<"Romance", "Comedy", "Family", "Drama">>,
     sadness |-> <<"Drama", "Animation", "Biography", "Romance">>,
     anger |-> <<"Comedy", "Adventure", "Action", "Thriller">>,
     fear |-> <<"Family", "Fantasy", "Adventure", "Animation">>,
     surprise |-> <<"Mystery", "Adventure", "Thriller", "Sci-Fi">>,
     neutral |-> <<"Action", "Adventure", "Comedy", "Drama">>]

ExpectedSearches ==
    IF emotion \in DOMAIN ExpectedGenres
    THEN ExpectedGenres[emotion]
    ELSE <<"Action", "Adventure", "Comedy", "Drama">>

\* the searches issued so far are the first genres of the list, in order,
\* and all of them once recommend is past its loop
SearchesInTableOrder ==
    /\ pc # "raised"
    /\ entry = "recommend" /\ pc # "recommend" =>
          /\ Len(requests) <= Len(ExpectedSearches)
          /\ \A i \in 1..Len(requests) : requests[i].genre = ExpectedSearches[i]
          /\ pc \in {"select", "done"} => Len(requests) = Len(ExpectedSearches)

\* when a search returns, whatever it returned and however it ended, its
\* records are added to the working list and the next genre is searched
SearchReturnsToLoop ==
    (entry = "recommend" /\ pc = "ret") =>
        /\ all_movies' = all_movies \o movies
        /\ IF Len(requests) < Len(ExpectedSearches)
           THEN pc' = "keyword" /\ Len(requests') = Len(requests) + 1
           ELSE pc' = "select" /\ requests' = requests

\* C13: the per-genre searches of a call recommend(emotion, count) are
\* exactly the genres of the emotion's list (the neutral list for an emotion
\* outside the taxonomy), once each and in table order; a failed or empty
\* search does not abort the aggregation.
C13_GenreOrder == [](SearchesInTableOrder) /\ [][SearchReturnsToLoop]_vars

\* the first genre's search failed or found nothing, the second genre was
\* searched all the same and gathered a record
C13_Witness ==
    /\ entry = "recommend" /\ pc = "ret"
    /\ gi = 2
    /\ Len(requests) = 2
    /\ all_movies = <<>>
    /\ movies # <<>>

LineRead == reads' = reads + 1

\* what the classifier would be given for an exit line
ExitTexts ==
    {<<"q">>, <<"Q","u","i","t">>, <<"e","x","i","t">>, <<"B","Y","E">>}

\* nothing an exit line contains is ever classified, and the loop never
\* analyses an empty input
LoopClassifies ==
    (entry = "main" /\ mode = "interactive") =>
        /\ \A i \in 1..Len(classifierCalls) : classifierCalls[i] \notin ExitTexts
        /\ pc = "analyze" => (text # <<>> /\ text # <<" ">>)

\* the parts of C14 that do not depend on the prompt
LoopStepCommon ==
    /\ (pc # "ended" /\ pc' = "ended") =>
          \/ ended' = "interrupt"
          \/ LineRead /\ lastRead'.line \in ExitLines
    /\ (LineRead /\ lastRead'.prompt = "mood" /\ lastRead'.line \in {<<>>, <<" ">>}) =>
          /\ pc' = "prompt"
          /\ classifierCalls' = classifierCalls
          /\ requests' = requests
    /\ (pc \in {"prompt", "more"} /\ lastRead'.kind = "eof" /\ ended' = "no") =>
          pc' = "prompt"

\* C14 as stated: the loop ends when, and only when, an exit keyword is read
\* or the user interrupts; ...
C14_ExitWheneverRead ==
    [][/\ (LineRead /\ lastRead'.line \in ExitLines) => pc' = "ended"
       /\ LoopStepCommon]_vars
    /\ [](LoopClassifies)

\* C14, amended: the loop ends when, and only when, an exit keyword
\* (trimmed, any letter case) is read at the mood prompt or the user
\* interrupts; a line read at the "want more (y/n)" prompt never ends the
\* loop, even an exit keyword; an exit keyword is never classified, an empty
\* input is skipped without classification or recommendation, and an error
\* raised by a read is reported and the loop goes on to the next read.
C14_InteractiveLoop ==
    [][/\ (LineRead /\ lastRead'.prompt = "mood" /\ lastRead'.line \in ExitLines) =>
             /\ pc' = "ended" /\ ended' = "exit"
             /\ classifierCalls' = classifierCalls
       /\ (LineRead /\ lastRead'.prompt = "more") => pc' \in {"prompt", "analyze"}
       /\ (pc # "ended" /\ pc' = "ended" /\ ended' # "interrupt") => lastRead'.prompt = "mood"
       /\ LoopStepCommon]_vars
    /\ [](LoopClassifies)

\* an exit keyword was typed at the y/n prompt and the loop is back at the
\* mood prompt
C14_Witness ==
    /\ entry = "main" /\ pc = "prompt"
    /\ lastRead = [prompt |-> "more", kind |-> "line", line |-> <<"q">>]
    /\ ended = "no"
    /\ result # None

====
